---- MODULE Spec2Model ----
(***************************************************************************)
(* Dataset ingestion of UABA2-PPDB-project.                                *)
(*                                                                         *)
(*   src/src/DatabaseConnection.py          DatabaseConnection.addDataset  *)
(*                                          and its registrar and loaders  *)
(*   src/flask-backend/src/celeryTasks/tasks.py   the insert_dataset task  *)
(*                                                                         *)
(* A connection c is one worker's DatabaseConnection (src/src/appVar.py).  *)
(* db holds the durable (committed) tables of the store; pending[c] holds  *)
(* the rows connection c has copied inside its open session transaction.   *)
(* Data frame cells, CSV fields and stored values are text.                *)
(***************************************************************************)
EXTENDS Naturals, Sequences, FiniteSets

VARIABLES
    uniqueEnforced, \* whether the store's schema has a unique constraint on dataset.name
    conns,          \* the connections (workers) that exist
    db,             \* durable tables: table name -> sequence of rows
    pending,        \* pending[c]: rows copied in c's open session transaction
    pc,             \* pc[c]: where connection c's task stands
    call,           \* call[c]: the arguments of the running call and its three files
    reg,            \* reg[c]: what __addDatasetEntry did in this call
    loaded,         \* loaded[c]: per loader, what it returned in this call
    df,             \* df[c]: the data frame the last loader read with read_csv
    steps,          \* steps[c]: the steps addDataset has run in this call, in order
    calls,          \* calls[c]: the calls the task made on insert_dataset_obj, in order
    exc,            \* exc[c]: the exception in flight, or NoExc
    outcome,        \* outcome[c]: what addDataset gave its caller
    taskEnd,        \* taskEnd[c]: how the task ended
    dbAtCall,       \* dbAtCall[c]: the durable tables when the call started
    preLoad,        \* preLoad[c]: pending[c] just before the last loader ran
    history         \* the finished addDataset calls: <<every loader returned true, outcome>>

vars == <<uniqueEnforced, conns, db, pending, pc, call, reg, loaded, df, steps,
          calls, exc, outcome, taskEnd, dbAtCall, preLoad, history>>

(***************************************************************************)
(* Bounds.                                                                 *)
(***************************************************************************)
\* the longest CSV body (rows) of the loader specification
MaxRows == 3

----------------------------------------------------------------------------
(***************************************************************************)
(* Sequences.                                                              *)
(***************************************************************************)
Range(s) == {s[i] : i \in DOMAIN s}

RECURSIVE SelectIdx(_, _, _)
\* the subsequence of s at the indices of keep, in order
SelectIdx(s, keep, i) ==
    IF i > Len(s) THEN <<>>
    ELSE (IF i \in keep THEN <<s[i]>> ELSE <<>>) \o SelectIdx(s, keep, i + 1)

\* all sequences over S of length at most n
SeqsUpTo(S, n) == UNION {[1..k -> S] : k \in 0..n}

----------------------------------------------------------------------------
(***************************************************************************)
(* pandas data frames: [cols |-> column names, rows |-> rows of cells].    *)
(***************************************************************************)
\* pandas' missing value
NaN == "NaN"
\* field texts pd.read_csv reads as missing
NaValues == {"", "NA", "NaN"}

ReadCsvCell(s) == IF s \in NaValues THEN NaN ELSE s

\* pd.read_csv(filename, sep=','): the header gives the columns, fields are parsed
read_csv(file) ==
    [cols |-> file.cols,
     rows |-> [i \in DOMAIN file.rows |->
                 [j \in DOMAIN file.rows[i] |-> ReadCsvCell(file.rows[i][j])]]]

\* list(df)
ColumnNames(frame) == Range(frame.cols)

ColIndex(frame, name) == CHOOSE j \in DOMAIN frame.cols : frame.cols[j] = name

\* df[name]
Column(frame, name) == [i \in DOMAIN frame.rows |-> frame.rows[i][ColIndex(frame, name)]]

\* df[[name]].copy()
Project(frame, name) ==
    [cols |-> <<name>>,
     rows |-> [i \in DOMAIN frame.rows |-> <<frame.rows[i][ColIndex(frame, name)]>>]]

\* df[name] = series: replaces the column when it exists, else adds it last
SetColumn(frame, name, series) ==
    IF name \in ColumnNames(frame)
    THEN [frame EXCEPT !.rows = [i \in DOMAIN frame.rows |->
                                   [frame.rows[i] EXCEPT ![ColIndex(frame, name)] = series[i]]]]
    ELSE [cols |-> Append(frame.cols, name),
          rows |-> [i \in DOMAIN frame.rows |-> Append(frame.rows[i], series[i])]]

\* df[name] = scalar
SetScalar(frame, name, v) == SetColumn(frame, name, [i \in DOMAIN frame.rows |-> v])

\* df.rename(columns={old: new}, inplace=True)
Rename(frame, old, new) ==
    [frame EXCEPT !.cols = [j \in DOMAIN frame.cols |->
                              IF frame.cols[j] = old THEN new ELSE frame.cols[j]]]

Key(frame, i, subset) == [k \in subset |-> frame.rows[i][ColIndex(frame, k)]]

\* keep='last'
drop_duplicates_last(frame, subset) ==
    LET keep == {i \in DOMAIN frame.rows :
                   \A j \in (i + 1)..Len(frame.rows) : Key(frame, j, subset) # Key(frame, i, subset)}
    IN  [frame EXCEPT !.rows = SelectIdx(frame.rows, keep, 1)]

\* the call left out
drop_duplicates_none(frame, subset) == frame

\* df.drop_duplicates(subset=..., inplace=True): keep='first'
drop_duplicates(frame, subset) ==
    LET keep == {i \in DOMAIN frame.rows :
                   \A j \in 1..(i - 1) : Key(frame, j, subset) # Key(frame, i, subset)}
    IN  [frame EXCEPT !.rows = SelectIdx(frame.rows, keep, 1)]

\* the call left out
dropna_none(frame) == frame

\* df.dropna(how="any", axis=0)
dropna(frame) ==
    LET keep == {i \in DOMAIN frame.rows : \A j \in DOMAIN frame.rows[i] : frame.rows[i][j] # NaN}
    IN  [frame EXCEPT !.rows = SelectIdx(frame.rows, keep, 1)]

\* df.to_csv(output, sep='\t', header=False, index=False): a missing value is written empty
ToCsvCell(v) == IF v = NaN THEN "" ELSE v

to_csv(frame) ==
    [i \in DOMAIN frame.rows |-> [j \in DOMAIN frame.rows[i] |-> ToCsvCell(frame.rows[i][j])]]

\* the store's NULL
NULL == "NULL"

\* cursor.copy_from(..., null=''): an empty field is stored as NULL
CopyFromCell(s) == IF s = "" THEN NULL ELSE s

\* cursor.copy_from(output, table, sep='\t', null='', columns=cols): the stored rows
copy_from(lines, cols) ==
    [i \in DOMAIN lines |->
       [name \in Range(cols) |->
          CopyFromCell(lines[i][CHOOSE j \in DOMAIN cols : cols[j] = name])]]

----------------------------------------------------------------------------
(***************************************************************************)
(* The store.                                                              *)
(***************************************************************************)
\* the tables the loaders copy into, inside the session's transaction
TxTables == {"article", "article_attribute", "customer", "customer_attribute", "purchase"}

Tables == TxTables \cup {"dataset"}

EmptyTx == [t \in TxTables |-> <<>>]

EmptyDb == [t \in Tables |-> <<>>]

\* the rows of the dataset table with this name
DatasetRows(name) == {i \in DOMAIN db.dataset : db.dataset[i].name = name}

\* a query that filters on the wrong column
DatasetExistsByUploader(name) == \E i \in DOMAIN db.dataset : db.dataset[i].uploaded_by = name

\* queryTable(datasets_table, {"name": dataset_name}).first() is not None
DatasetExists(name) == DatasetRows(name) # {}

\* a unique constraint on dataset.name, where the schema has one, refuses the insert
StoreRejects(name) == uniqueEnforced /\ DatasetRows(name) # {}

\* engine.execute(table.insert(), [values]): connectionless execution autocommits,
\* so the row is durable when insertRow returns
insertRow(table, values) == [db EXCEPT ![table] = Append(db[table], values)]

\* session.commit(): the rows copied in the session's transaction become durable
CommitTx(tx) == [t \in Tables |-> IF t \in TxTables THEN db[t] \o tx[t] ELSE db[t]]

----------------------------------------------------------------------------
(***************************************************************************)
(* Files.                                                                  *)
(***************************************************************************)
\* a file that does not exist: read_csv raises FileNotFoundError
MissingFile == [state |-> "missing", cols |-> <<>>, rows |-> <<>>]

\* a file of zero bytes: read_csv raises pandas.errors.EmptyDataError, a ValueError
EmptyFile == [state |-> "empty", cols |-> <<>>, rows |-> <<>>]

Csv(cols, rows) == [state |-> "ok", cols |-> cols, rows |-> rows]

NoExc == "none"

\* what pd.read_csv raises on this file
ReadError(file) ==
    CASE file.state = "missing" -> "Exception"
      [] file.state = "empty" -> "ValueError"
      [] OTHER -> NoExc

----------------------------------------------------------------------------
(***************************************************************************)
(* The loaders, as functions of the data frame read: what they return and  *)
(* the rows they copy.                                                     *)
(***************************************************************************)
\* meta_data_type + "_id"
IdColumn(kind) == IF kind = "article" THEN "article_id" ELSE "customer_id"

\* meta_data_type + "_attribute"
AttributeTable(kind) == IF kind = "article" THEN "article_attribute" ELSE "customer_attribute"

\* df_meta_data_attribute_table["type"] = 0
TypeTag == "0"

\* the frame of one attribute column, before the rows with a missing entry are dropped
AttributeFrame(df_csv, dataset_name, kind, attribute_name) ==
    LET f1 == Project(df_csv, IdColumn(kind))
        f2 == SetScalar(f1, "dataset_name", dataset_name)
        f3 == SetScalar(f2, "attribute", attribute_name)
        f4 == SetColumn(f3, "value", Column(df_csv, attribute_name))
    IN  SetScalar(f4, "type", TypeTag)

\* one pass of the loop over attribute_names: the rows copied for one column
AttributeRows(df_csv, dataset_name, kind, attribute_name) ==
    LET frame == dropna(AttributeFrame(df_csv, dataset_name, kind, attribute_name))
    IN  copy_from(to_csv(frame), frame.cols)

RECURSIVE AttributeLoop(_, _, _, _)
\* for attribute_name in attribute_names, from column j on
AttributeLoop(df_csv, dataset_name, kind, j) ==
    IF j > Len(df_csv.cols) THEN <<>>
    ELSE (IF df_csv.cols[j] = IdColumn(kind) THEN <<>>
          ELSE AttributeRows(df_csv, dataset_name, kind, df_csv.cols[j]))
         \o AttributeLoop(df_csv, dataset_name, kind, j + 1)

\* __addMetaDataset after read_csv: [ret, rows copied per table]
addMetaDataset(df_csv, dataset_name, kind) ==
    IF IdColumn(kind) \notin ColumnNames(df_csv)
    THEN [ret |-> FALSE, tx |-> EmptyTx]
    ELSE LET ident == SetScalar(Project(df_csv, IdColumn(kind)), "dataset_name", dataset_name)
         IN  [ret |-> TRUE,
              tx |-> [EmptyTx EXCEPT
                        ![kind] = copy_from(to_csv(ident), ident.cols),
                        ![AttributeTable(kind)] = AttributeLoop(df_csv, dataset_name, kind, 1)]]

\* the columns __addPurchasesDataset requires
RequiredPurchaseColumns == {"customer_id", "article_id", "price", "t_dat"}

\* the chain without its elif for "price"
PurchaseColumnMissingNoPrice(frame) ==
    \E col \in {"customer_id", "article_id", "t_dat"} : col \notin ColumnNames(frame)

\* the if/elif chain over attribute_names: some required column is absent
PurchaseColumnMissing(frame) == \E col \in RequiredPurchaseColumns : col \notin ColumnNames(frame)

PurchaseKey == {"dataset_name", "customer_id", "article_id", "timestamp"}

\* __addPurchasesDataset after read_csv: [ret, rows copied per table]
addPurchasesDataset(df_purchase, dataset_name) ==
    IF PurchaseColumnMissing(df_purchase)
    THEN [ret |-> FALSE, tx |-> EmptyTx]
    ELSE LET f1 == SetScalar(df_purchase, "dataset_name", dataset_name)
             f2 == Rename(f1, "t_dat", "timestamp")
             f3 == drop_duplicates(f2, PurchaseKey)
         IN  [ret |-> TRUE,
              tx |-> [EmptyTx EXCEPT !["purchase"] = copy_from(to_csv(f3), f3.cols)]]

\* the session's transaction after a loader's copies
Copied(tx, more) == [t \in TxTables |-> tx[t] \o more[t]]

----------------------------------------------------------------------------
(***************************************************************************)
(* The inputs of the system specifications.                                *)
(***************************************************************************)
AllConns == {1, 2}

Names == {"D1", "D2"}

Uploader == "mosh"

PurchaseHeader == <<"customer_id", "article_id", "price", "t_dat">>

SysPurchaseFiles ==
    {MissingFile,
     Csv(PurchaseHeader, << <<"1", "7", "10", "d1">>, <<"1", "7", "20", "d1">>,
                            <<"2", "7", "10", "d1">> >>),
     Csv(<<"customer_id", "article_id", "price">>, << <<"1", "7", "10">> >>)}

SysArticleFiles ==
    {MissingFile,
     Csv(<<"article_id", "colour">>, << <<"7", "red">>, <<"8", "">> >>),
     Csv(<<"colour">>, << <<"red">> >>)}

SysCustomerFiles ==
    {EmptyFile,
     Csv(<<"customer_id", "age">>, << <<"1", "30">>, <<"2", "NA">> >>),
     Csv(<<"age">>, << <<"30">> >>)}

NoCall == [name |-> "", purchases |-> MissingFile, articles |-> MissingFile,
           customers |-> MissingFile]

NoFrame == [cols |-> <<>>, rows |-> <<>>]

NotLoaded == [article |-> "none", customer |-> "none", purchase |-> "none"]

----------------------------------------------------------------------------
(***************************************************************************)
(* The insert_dataset task and the addDataset call it makes.               *)
(***************************************************************************)
\* the steps of addDataset after registration, in the order of its body
StepOrder == <<"register", "article", "customer", "purchase", "commit">>

\* addDataset returning as soon as a loader returns false
AfterLoaderStopOnFalse(step, ret) ==
    IF ~ret THEN "returned"
    ELSE CASE step = "article" -> "customer"
           [] step = "customer" -> "purchase"
           [] step = "purchase" -> "commit"

\* where addDataset goes after a loader has returned ret: the return value is dropped
AfterLoader(step, ret) ==
    CASE step = "article" -> "customer"
      [] step = "customer" -> "purchase"
      [] step = "purchase" -> "commit"

\* the task without its second except clause
CaughtValueErrorOnly(e) == e = "ValueError"

\* except ValueError / except Exception
Caught(e) == e \in {"ValueError", "Exception"}

\* insert_dataset: InsertDataset(...) is built and start_insert() enters addDataset
StartTask(c, name, purchases, articles, customers) ==
    /\ pc[c] = "idle"
    /\ pc' = [pc EXCEPT ![c] = "register_check"]
    /\ call' = [call EXCEPT ![c] = [name |-> name, purchases |-> purchases,
                                    articles |-> articles, customers |-> customers]]
    /\ reg' = [reg EXCEPT ![c] = "none"]
    /\ loaded' = [loaded EXCEPT ![c] = NotLoaded]
    /\ df' = [df EXCEPT ![c] = NoFrame]
    /\ steps' = [steps EXCEPT ![c] = <<>>]
    /\ calls' = [calls EXCEPT ![c] = <<>>]
    /\ exc' = [exc EXCEPT ![c] = NoExc]
    /\ outcome' = [outcome EXCEPT ![c] = "running"]
    /\ taskEnd' = [taskEnd EXCEPT ![c] = "running"]
    /\ dbAtCall' = [dbAtCall EXCEPT ![c] = db]
    /\ preLoad' = [preLoad EXCEPT ![c] = pending[c]]
    /\ UNCHANGED <<uniqueEnforced, conns, db, pending, history>>

\* an exception leaves addDataset and start_insert
Raise(c, e) ==
    /\ exc' = [exc EXCEPT ![c] = e]
    /\ outcome' = [outcome EXCEPT ![c] = "raised"]
    /\ pc' = [pc EXCEPT ![c] = "raised"]

\* __addDatasetEntry, the existence query; found: addDataset returns False
RegistrarCheck(c) ==
    /\ pc[c] = "register_check"
    /\ IF DatasetExists(call[c].name)
       THEN /\ reg' = [reg EXCEPT ![c] = "found"]
            /\ outcome' = [outcome EXCEPT ![c] = "False"]
            /\ pc' = [pc EXCEPT ![c] = "returned"]
       ELSE /\ reg' = [reg EXCEPT ![c] = "notfound"]
            /\ pc' = [pc EXCEPT ![c] = "register_insert"]
            /\ UNCHANGED outcome
    /\ UNCHANGED <<uniqueEnforced, conns, db, pending, call, loaded, df, steps, calls,
                   exc, taskEnd, dbAtCall, preLoad, history>>

\* the insert made with insertRowNoConflict: a refused row is dropped without an error
RegistrarInsertNoConflict(c) ==
    /\ pc[c] = "register_insert"
    /\ reg' = [reg EXCEPT ![c] = "inserted"]
    /\ db' = IF StoreRejects(call[c].name) THEN db
             ELSE insertRow("dataset", [name |-> call[c].name, uploaded_by |-> Uploader])
    /\ steps' = [steps EXCEPT ![c] = Append(@, "register")]
    /\ pc' = [pc EXCEPT ![c] = "article"]
    /\ UNCHANGED <<uniqueEnforced, conns, pending, call, loaded, df, calls, taskEnd,
                   dbAtCall, preLoad, history, exc, outcome>>

\* __addDatasetEntry, the insert; then addDataset's file check, which only logs
RegistrarInsert(c) ==
    /\ pc[c] = "register_insert"
    /\ IF StoreRejects(call[c].name)
       THEN /\ reg' = [reg EXCEPT ![c] = "rejected"]
            /\ Raise(c, "Exception")
            /\ UNCHANGED <<db, steps>>
       ELSE /\ reg' = [reg EXCEPT ![c] = "inserted"]
            /\ db' = insertRow("dataset", [name |-> call[c].name, uploaded_by |-> Uploader])
            /\ steps' = [steps EXCEPT ![c] = Append(@, "register")]
            /\ pc' = [pc EXCEPT ![c] = "article"]
            /\ UNCHANGED <<exc, outcome>>
    /\ UNCHANGED <<uniqueEnforced, conns, pending, call, loaded, df, calls, taskEnd,
                   dbAtCall, preLoad, history>>

\* one loader call of addDataset: read_csv raises, or the loader returns and
\* addDataset goes on whatever it returned
LoaderStep(c, step, file, result) ==
    /\ pc[c] = step
    /\ preLoad' = [preLoad EXCEPT ![c] = pending[c]]
    /\ IF ReadError(file) # NoExc
       THEN /\ Raise(c, ReadError(file))
            /\ UNCHANGED <<pending, loaded, df, steps>>
       ELSE /\ df' = [df EXCEPT ![c] = read_csv(file)]
            /\ pending' = [pending EXCEPT ![c] = Copied(@, result.tx)]
            /\ loaded' = [loaded EXCEPT ![c][step] = IF result.ret THEN "true" ELSE "false"]
            /\ steps' = [steps EXCEPT ![c] = Append(@, step)]
            /\ pc' = [pc EXCEPT ![c] = AfterLoader(step, result.ret)]
            /\ UNCHANGED <<exc, outcome>>
    /\ UNCHANGED <<uniqueEnforced, conns, db, call, reg, calls, taskEnd, dbAtCall, history>>

\* self.__addMetaDataset(dataset_name, article_data_filename, "article")
AddArticles(c) ==
    LoaderStep(c, "article", call[c].articles,
               addMetaDataset(read_csv(call[c].articles), call[c].name, "article"))

\* self.__addMetaDataset(dataset_name, customer_data_filename, "customer")
AddCustomers(c) ==
    LoaderStep(c, "customer", call[c].customers,
               addMetaDataset(read_csv(call[c].customers), call[c].name, "customer"))

\* self.__addPurchasesDataset(dataset_name, purchase_data_filename)
AddPurchases(c) ==
    LoaderStep(c, "purchase", call[c].purchases,
               addPurchasesDataset(read_csv(call[c].purchases), call[c].name))

\* self.session.commit(), the log line, and the return (of None)
Commit(c) ==
    /\ pc[c] = "commit"
    /\ db' = CommitTx(pending[c])
    /\ pending' = [pending EXCEPT ![c] = EmptyTx]
    /\ steps' = [steps EXCEPT ![c] = Append(@, "commit")]
    /\ outcome' = [outcome EXCEPT ![c] = "None"]
    /\ history' = history \cup
           {<<\A l \in DOMAIN loaded[c] : loaded[c][l] = "true", "None">>}
    /\ pc' = [pc EXCEPT ![c] = "returned"]
    /\ UNCHANGED <<uniqueEnforced, conns, call, reg, loaded, df, calls, exc, taskEnd,
                   dbAtCall, preLoad>>

\* the worker is stopped while addDataset runs: SystemExit or KeyboardInterrupt,
\* which no except clause of the task names
Interrupt(c) ==
    /\ pc[c] \in {"register_check", "register_insert", "article", "customer", "purchase", "commit"}
    /\ Raise(c, "BaseException")
    /\ UNCHANGED <<uniqueEnforced, conns, db, pending, call, reg, loaded, df, steps, calls,
                   taskEnd, dbAtCall, preLoad, history>>

\* insert_dataset_obj.abort(): the transaction is discarded
abort(c) == [pending EXCEPT ![c] = EmptyTx]

\* insert_dataset_obj.cleanup(): the connection is released, and with it what it held
cleanup(c) == [pending EXCEPT ![c] = EmptyTx]

\* except ValueError as err / except Exception as err: abort, log, raise err
ExceptClause(c) ==
    /\ pc[c] = "raised"
    /\ Caught(exc[c])
    /\ calls' = [calls EXCEPT ![c] = Append(@, "abort")]
    /\ pending' = abort(c)
    /\ pc' = [pc EXCEPT ![c] = "reraised"]
    /\ UNCHANGED <<uniqueEnforced, conns, db, call, reg, loaded, df, steps, exc, outcome,
                   taskEnd, dbAtCall, preLoad, history>>

\* finally: cleanup; then the task returns its message or the error leaves it
FinallyClause(c) ==
    /\ \/ pc[c] \in {"returned", "reraised"}
       \/ pc[c] = "raised" /\ ~Caught(exc[c])
    /\ calls' = [calls EXCEPT ![c] = Append(@, "cleanup")]
    /\ pending' = cleanup(c)
    /\ taskEnd' = [taskEnd EXCEPT ![c] = IF exc[c] = NoExc THEN "started dataset insert"
                                         ELSE exc[c]]
    /\ pc' = [pc EXCEPT ![c] = "idle"]
    /\ UNCHANGED <<uniqueEnforced, conns, db, call, reg, loaded, df, steps, exc, outcome,
                   dbAtCall, preLoad, history>>

----------------------------------------------------------------------------
(***************************************************************************)
(* Spec: one worker runs insert_dataset tasks one after another.           *)
(***************************************************************************)
InitOf(cs) ==
    /\ uniqueEnforced \in BOOLEAN
    /\ conns = cs
    /\ db = EmptyDb
    /\ pending = [c \in AllConns |-> EmptyTx]
    /\ pc = [c \in AllConns |-> "idle"]
    /\ call = [c \in AllConns |-> NoCall]
    /\ reg = [c \in AllConns |-> "none"]
    /\ loaded = [c \in AllConns |-> NotLoaded]
    /\ df = [c \in AllConns |-> NoFrame]
    /\ steps = [c \in AllConns |-> <<>>]
    /\ calls = [c \in AllConns |-> <<>>]
    /\ exc = [c \in AllConns |-> NoExc]
    /\ outcome = [c \in AllConns |-> "none"]
    /\ taskEnd = [c \in AllConns |-> "none"]
    /\ dbAtCall = [c \in AllConns |-> EmptyDb]
    /\ preLoad = [c \in AllConns |-> EmptyTx]
    /\ history = {}

Init == InitOf({1})

Next ==
    \/ \E c \in conns, name \in Names, p \in SysPurchaseFiles, a \in SysArticleFiles,
          cu \in SysCustomerFiles : StartTask(c, name, p, a, cu)
    \/ \E c \in conns : RegistrarCheck(c)
    \/ \E c \in conns : RegistrarInsert(c)
    \/ \E c \in conns : AddArticles(c)
    \/ \E c \in conns : AddCustomers(c)
    \/ \E c \in conns : AddPurchases(c)
    \/ \E c \in conns : Commit(c)
    \/ \E c \in conns : Interrupt(c)
    \/ \E c \in conns : ExceptClause(c)
    \/ \E c \in conns : FinallyClause(c)

Spec == Init /\ [][Next]_vars

----------------------------------------------------------------------------
(***************************************************************************)
(* SpecRace: two workers, each with its own connection, run tasks at the   *)
(* same time.  The steps of the two interleave at the store's statements.  *)
(***************************************************************************)
RacePurchases == Csv(PurchaseHeader, << <<"1", "7", "10", "d1">> >>)

RaceArticles == Csv(<<"article_id">>, << <<"7">> >>)

RaceCustomers == Csv(<<"customer_id">>, << <<"1">> >>)

InitRace == InitOf(AllConns)

NextRace ==
    \/ \E c \in conns, name \in Names :
          StartTask(c, name, RacePurchases, RaceArticles, RaceCustomers)
    \/ \E c \in conns : RegistrarCheck(c)
    \/ \E c \in conns : RegistrarInsert(c)
    \/ \E c \in conns : AddArticles(c)
    \/ \E c \in conns : AddCustomers(c)
    \/ \E c \in conns : AddPurchases(c)
    \/ \E c \in conns : Commit(c)
    \/ \E c \in conns : ExceptClause(c)
    \/ \E c \in conns : FinallyClause(c)

SpecRace == InitRace /\ [][NextRace]_vars

----------------------------------------------------------------------------
(***************************************************************************)
(* SpecLoaders: one addDataset call, registered, stands before one of its  *)
(* loaders with any CSV file of at most MaxRows rows; the loaders before   *)
(* it read a file with a header and no rows.                               *)
(***************************************************************************)
\* the field texts of a column in the generated files
CellTexts(col) ==
    CASE col = "article_id" -> {"7", "8", ""}
      [] col = "customer_id" -> {"1", "2", ""}
      [] col = "colour" -> {"red", ""}
      [] col = "size" -> {"S", "NA"}
      [] col = "price" -> {"10", "20"}
      [] col = "t_dat" -> {"d1", "d2"}

RECURSIVE RowsFor(_, _)
\* every CSV row under this header; the columns of `full` are never empty
RowsFor(header, full) ==
    IF header = <<>> THEN {<<>>}
    ELSE {<<v>> \o r : v \in IF Head(header) \in full THEN CellTexts(Head(header)) \ {""}
                              ELSE CellTexts(Head(header)),
                       r \in RowsFor(Tail(header), full)}

\* every CSV body of at most MaxRows rows under this header
CsvBodies(header, full) == SeqsUpTo(RowsFor(header, full), MaxRows)

MetaHeaders(kind) ==
    IF kind = "article"
    THEN {<<"article_id", "colour", "size">>, <<"colour", "article_id">>, <<"colour", "size">>}
    ELSE {<<"size", "customer_id">>, <<"colour", "size">>}

PurchaseHeaders ==
    {PurchaseHeader,
     <<"article_id", "price", "t_dat">>, <<"customer_id", "price", "t_dat">>,
     <<"customer_id", "article_id", "t_dat">>, <<"customer_id", "article_id", "price">>}

HeaderOnly(cols) == Csv(cols, <<>>)

\* the state of the call before the loader `step`, reading these three files
BeforeLoader(step, purchases, articles, customers) ==
    /\ uniqueEnforced = FALSE
    /\ conns = {1}
    /\ db = [EmptyDb EXCEPT !["dataset"] = <<[name |-> "D1", uploaded_by |-> Uploader]>>]
    /\ pending = [c \in AllConns |-> EmptyTx]
    /\ pc = [c \in AllConns |-> IF c = 1 THEN step ELSE "idle"]
    /\ call = [c \in AllConns |->
                 IF c = 1 THEN [name |-> "D1", purchases |-> purchases,
                                articles |-> articles, customers |-> customers]
                 ELSE NoCall]
    /\ reg = [c \in AllConns |-> IF c = 1 THEN "inserted" ELSE "none"]
    /\ loaded = [c \in AllConns |->
                   IF c = 1
                   THEN [article |-> IF step = "article" THEN "none" ELSE "true",
                         customer |-> IF step = "purchase" THEN "true" ELSE "none",
                         purchase |-> "none"]
                   ELSE NotLoaded]
    /\ df = [c \in AllConns |->
               IF c = 1 /\ step = "customer" THEN read_csv(articles)
               ELSE IF c = 1 /\ step = "purchase" THEN read_csv(customers)
               ELSE NoFrame]
    /\ steps = [c \in AllConns |->
                  IF c = 1 THEN SubSeq(StepOrder, 1, CHOOSE k \in 1..3 : StepOrder[k + 1] = step)
                  ELSE <<>>]
    /\ calls = [c \in AllConns |-> <<>>]
    /\ exc = [c \in AllConns |-> NoExc]
    /\ outcome = [c \in AllConns |-> IF c = 1 THEN "running" ELSE "none"]
    /\ taskEnd = [c \in AllConns |-> IF c = 1 THEN "running" ELSE "none"]
    /\ dbAtCall = [c \in AllConns |-> EmptyDb]
    /\ preLoad = [c \in AllConns |-> EmptyTx]
    /\ history = {}

InitLoaders ==
    \/ \E h \in MetaHeaders("article") : \E body \in CsvBodies(h, {}) :
          BeforeLoader("article", HeaderOnly(PurchaseHeader), Csv(h, body),
                       HeaderOnly(<<"customer_id">>))
    \/ \E h \in MetaHeaders("customer") : \E body \in CsvBodies(h, {}) :
          BeforeLoader("customer", HeaderOnly(PurchaseHeader), HeaderOnly(<<"article_id">>),
                       Csv(h, body))
    \/ \E h \in PurchaseHeaders : \E body \in CsvBodies(h, {"customer_id", "article_id"}) :
          BeforeLoader("purchase", Csv(h, body), HeaderOnly(<<"article_id">>),
                       HeaderOnly(<<"customer_id">>))

NextLoaders ==
    \/ \E c \in conns : AddArticles(c)
    \/ \E c \in conns : AddCustomers(c)
    \/ \E c \in conns : AddPurchases(c)
    \/ \E c \in conns : Commit(c)
    \/ \E c \in conns : FinallyClause(c)

SpecLoaders == InitLoaders /\ [][NextLoaders]_vars

----------------------------------------------------------------------------
(***************************************************************************)
(* Properties.                                                             *)
(***************************************************************************)
\* connection c has made a call (its record of the last call is meaningful)
Called(c) == c \in conns /\ taskEnd[c] # "none"

\* the task of connection c has ended
Ended(c) == Called(c) /\ taskEnd[c] # "running"

\* the name of c's call was in the dataset table when the call started
PresentAtCall(c) == \E i \in DOMAIN dbAtCall[c].dataset : dbAtCall[c].dataset[i].name = call[c].name

\* the loader `step` of c's call has just returned
JustLoaded(c, step) ==
    /\ Called(c)
    /\ steps[c] # <<>>
    /\ steps[c][Len(steps[c])] = step
    /\ pc[c] \notin {"raised", "reraised", "idle"}

\* the rows the last loader of c copied into table t
Written(c, t) == SubSeq(pending[c][t], Len(preLoad[c][t]) + 1, Len(pending[c][t]))

\* the m-th smallest number of S
Nth(S, m) == CHOOSE i \in S : Cardinality({j \in S : j < i}) = m - 1

\* how often x occurs in the sequence s
Count(s, x) == Cardinality({i \in DOMAIN s : s[i] = x})

\* the stored form of a data frame cell
Stored(v) == IF v = NaN THEN NULL ELSE v

Cell(frame, i, col) == frame.rows[i][CHOOSE j \in DOMAIN frame.cols : frame.cols[j] = col]

(* C1: a call of addDataset with a name that is already in the dataset     *)
(* table has __addDatasetEntry return false and stops there: no loader     *)
(* runs, the durable tables stay as they were at the call, and the dataset *)
(* table holds exactly one row of that name.                               *)
C1_ExistingNameStops ==
    \A c \in conns :
        (Called(c) /\ PresentAtCall(c)) =>
            /\ reg[c] \in {"none", "found"}
            /\ reg[c] = "found" => outcome[c] = "False"
            /\ steps[c] = <<>>
            /\ loaded[c] = NotLoaded
            /\ pending[c] = EmptyTx
            /\ db = dbAtCall[c]
            /\ Cardinality(DatasetRows(call[c].name)) = 1

\* a second call with the name of a loaded dataset has ended
C1_Witness ==
    /\ Ended(1)
    /\ PresentAtCall(1)
    /\ reg[1] = "found"
    /\ db.purchase # <<>>
    /\ db.purchase[1].dataset_name = call[1].name

(* C2: until the call's session.commit() has run, nothing the call wrote,  *)
(* the dataset row included, is durable: the durable tables are those of   *)
(* the start of the call.                                                  *)
C2_NothingDurableBeforeCommit ==
    \A c \in conns :
        (Called(c) /\ "commit" \notin Range(steps[c])) => db = dbAtCall[c]

(* C3: a loader that finds a required column absent returns false and      *)
(* copies no rows: __addMetaDataset without "<kind>_id", and               *)
(* __addPurchasesDataset without customer_id, article_id, price or t_dat.  *)
C3_MissingColumnWritesNothing ==
    \A c \in conns :
        /\ \A kind \in {"article", "customer"} :
              (JustLoaded(c, kind) /\ IdColumn(kind) \notin Range(df[c].cols)) =>
                  /\ loaded[c][kind] = "false"
                  /\ pending[c] = preLoad[c]
        /\ (/\ JustLoaded(c, "purchase")
            /\ \E col \in {"customer_id", "article_id", "price", "t_dat"} :
                  col \notin Range(df[c].cols)) =>
                  /\ loaded[c].purchase = "false"
                  /\ pending[c] = preLoad[c]

\* the purchase loader has read a file with rows and no price column
C3_Witness ==
    /\ JustLoaded(1, "purchase")
    /\ "price" \notin Range(df[1].cols)
    /\ {"customer_id", "article_id", "t_dat"} \subseteq Range(df[1].cols)
    /\ Len(df[1].rows) > 0
    /\ loaded[1].purchase = "false"

\* the rows of the purchase frame that are the first of their key
FirstOfKey(frame) ==
    {i \in DOMAIN frame.rows :
        \A j \in 1..(i - 1) :
            <<Cell(frame, j, "customer_id"), Cell(frame, j, "article_id"), Cell(frame, j, "t_dat")>>
            # <<Cell(frame, i, "customer_id"), Cell(frame, i, "article_id"), Cell(frame, i, "t_dat")>>}

\* the purchase row stored for row i of the frame
PurchaseRow(frame, i, name) ==
    [customer_id |-> Stored(Cell(frame, i, "customer_id")),
     article_id |-> Stored(Cell(frame, i, "article_id")),
     price |-> Stored(Cell(frame, i, "price")),
     timestamp |-> Stored(Cell(frame, i, "t_dat")),
     dataset_name |-> name]

(* C4: from a purchase CSV with the four required columns, the rows        *)
(* __addPurchasesDataset copies into purchase are exactly the first        *)
(* occurrence of each key {dataset_name, customer_id, article_id,          *)
(* timestamp}, in file order.                                              *)
C4_FirstOccurrencesInOrder ==
    \A c \in conns :
        (JustLoaded(c, "purchase") /\ Range(PurchaseHeader) \subseteq Range(df[c].cols)) =>
            LET firsts == FirstOfKey(df[c])
                written == Written(c, "purchase")
            IN  /\ loaded[c].purchase = "true"
                /\ Len(written) = Cardinality(firsts)
                /\ \A m \in DOMAIN written :
                      written[m] = PurchaseRow(df[c], Nth(firsts, m), call[c].name)

\* rows 1 and 3 share a key and differ in price, row 2 has another key
C4_Witness ==
    /\ JustLoaded(1, "purchase")
    /\ Range(PurchaseHeader) \subseteq Range(df[1].cols)
    /\ Len(df[1].rows) = 3
    /\ FirstOfKey(df[1]) = {1, 2}
    /\ Cell(df[1], 1, "customer_id") = Cell(df[1], 3, "customer_id")
    /\ Cell(df[1], 1, "price") # Cell(df[1], 3, "price")
    /\ Len(Written(1, "purchase")) = 2

\* the rows copied to <kind>_attribute for attribute a, in order
AttributeWritten(c, kind, a) ==
    LET written == Written(c, AttributeTable(kind))
    IN  SelectIdx(written, {m \in DOMAIN written : written[m].attribute = a}, 1)

\* the rows of the frame whose cell in column col is missing
NullRows(frame, col) == {i \in DOMAIN frame.rows : Cell(frame, i, col) = NaN}

(* C5 as stated: for a metadata CSV with N rows and a column with k null   *)
(* entries, __addMetaDataset copies exactly N-k rows for that attribute.   *)
C5_RowsAreNMinusK ==
    \A c \in conns : \A kind \in {"article", "customer"} :
        (JustLoaded(c, kind) /\ IdColumn(kind) \in Range(df[c].cols)) =>
            \A a \in Range(df[c].cols) \ {IdColumn(kind)} :
                Len(AttributeWritten(c, kind, a)) + Cardinality(NullRows(df[c], a))
                    = Len(df[c].rows)

(* C5 amended: when __addMetaDataset returns true, the rows it copied for  *)
(* an attribute column are exactly one per CSV row whose <kind>_id and     *)
(* value are both non-null, in file order (N-k rows when no <kind>_id is   *)
(* null); a null in another column removes none of them.                   *)
C5_RowsWithIdAndValue ==
    \A c \in conns : \A kind \in {"article", "customer"} :
        (JustLoaded(c, kind) /\ IdColumn(kind) \in Range(df[c].cols)) =>
            /\ loaded[c][kind] = "true"
            /\ \A a \in Range(df[c].cols) \ {IdColumn(kind)} :
                  LET good == DOMAIN df[c].rows
                                \ (NullRows(df[c], a) \cup NullRows(df[c], IdColumn(kind)))
                      written == AttributeWritten(c, kind, a)
                  IN  /\ Len(written) = Cardinality(good)
                      /\ NullRows(df[c], IdColumn(kind)) = {} =>
                            Len(written) + Cardinality(NullRows(df[c], a)) = Len(df[c].rows)
                      /\ \A m \in DOMAIN written :
                            /\ written[m][IdColumn(kind)] = Cell(df[c], Nth(good, m), IdColumn(kind))
                            /\ written[m].value = Cell(df[c], Nth(good, m), a)
                            /\ written[m].dataset_name = call[c].name
                            /\ written[m].type = "0"

\* three articles; colour has one null, size has none: 2 and 3 rows are copied
C5_Witness ==
    /\ JustLoaded(1, "article")
    /\ df[1].cols = <<"article_id", "colour", "size">>
    /\ Len(df[1].rows) = 3
    /\ NullRows(df[1], "article_id") = {}
    /\ NullRows(df[1], "colour") = {2}
    /\ NullRows(df[1], "size") = {}
    /\ Len(AttributeWritten(1, "article", "colour")) = 2
    /\ Len(AttributeWritten(1, "article", "size")) = 3

\* the key of a stored purchase row
StoredKey(row) == <<row.dataset_name, row.customer_id, row.article_id, row.timestamp>>

(* C6: after any sequence of addDataset calls the purchase table never     *)
(* holds two rows with the same {dataset_name, customer_id, article_id,    *)
(* timestamp}.                                                             *)
C6_PurchaseKeysUnique ==
    \A i, j \in DOMAIN db.purchase :
        i # j => StoredKey(db.purchase[i]) # StoredKey(db.purchase[j])

\* two datasets are loaded from a file with a duplicate, and a name was used again
C6_Witness ==
    /\ Len(db.purchase) = 4
    /\ db.purchase[1].dataset_name # db.purchase[4].dataset_name
    /\ Ended(1)
    /\ reg[1] = "found"
    /\ call[1].purchases.state = "ok"
    /\ Len(call[1].purchases.rows) = 3

(* C7: in insert_dataset, when start_insert raises a ValueError or another *)
(* Exception, abort is called once, then cleanup once, and the error       *)
(* leaves the task; when start_insert returns, abort is not called; on     *)
(* every exit cleanup has been called exactly once.                        *)
C7_AbortThenCleanup ==
    \A c \in conns :
        /\ Count(calls[c], "abort") <= 1
        /\ Count(calls[c], "cleanup") <= 1
        /\ Called(c) /\ exc[c] = NoExc => Count(calls[c], "abort") = 0
        /\ Ended(c) => Count(calls[c], "cleanup") = 1
        /\ Ended(c) /\ exc[c] = NoExc =>
              calls[c] = <<"cleanup">> /\ taskEnd[c] = "started dataset insert"
        /\ Ended(c) /\ exc[c] \in {"ValueError", "Exception"} =>
              calls[c] = <<"abort", "cleanup">> /\ taskEnd[c] = exc[c]

\* a task whose start_insert raised an Exception that is no ValueError has ended
C7_Witness ==
    /\ Ended(1)
    /\ exc[1] = "Exception"
    /\ calls[1] = <<"abort", "cleanup">>
    /\ taskEnd[1] = "Exception"

(* C8: a call of addDataset in which a loader returned false gives its     *)
(* caller another outcome than a call in which every loader returned true. *)
C8_FalseLoaderIsReported ==
    \A h1, h2 \in history : h1[1] # h2[1] => h1[2] # h2[2]

\* both connections found no row of the name of their call
BothPassedCheck(c1, c2) ==
    /\ c1 # c2
    /\ Called(c1) /\ Called(c2)
    /\ call[c1].name = call[c2].name
    /\ reg[c1] \in {"inserted", "rejected"}
    /\ reg[c2] \in {"inserted", "rejected"}

(* C9: two calls with one name on two connections can both pass the        *)
(* existence check before either inserts; then, without a unique           *)
(* constraint on dataset.name, both __addDatasetEntry calls return true    *)
(* and the table holds two rows of the name; with the constraint one       *)
(* registers, the other fails with a store error, and no name is ever      *)
(* held twice.                                                             *)
C9_CheckThenInsertRace ==
    /\ uniqueEnforced => \A name \in Names : Cardinality(DatasetRows(name)) <= 1
    /\ \A c1, c2 \in conns :
          BothPassedCheck(c1, c2) =>
              IF uniqueEnforced
              THEN /\ Cardinality(DatasetRows(call[c1].name)) = 1
                   /\ {reg[c1], reg[c2]} = {"inserted", "rejected"}
                   /\ \A c \in {c1, c2} : reg[c] = "rejected" => exc[c] = "Exception"
              ELSE /\ Cardinality(DatasetRows(call[c1].name)) = 2
                   /\ reg[c1] = "inserted" /\ reg[c2] = "inserted"

\* without the constraint both have registered the same name
C9_Witness ==
    /\ ~uniqueEnforced
    /\ BothPassedCheck(1, 2)
    /\ reg[1] = "inserted" /\ reg[2] = "inserted"
    /\ Cardinality(DatasetRows(call[1].name)) = 2

(* C10: after a successful registration the steps of addDataset run in the *)
(* order article load, customer load, purchase load, commit; as long as    *)
(* nothing raises, the next step is due whatever the loaders returned.     *)
C10_StepsInOrder ==
    \A c \in conns :
        /\ steps[c] = SubSeq(StepOrder, 1, Len(steps[c]))
        /\ (Called(c) /\ reg[c] = "inserted" /\ exc[c] = NoExc) =>
              IF Len(steps[c]) < Len(StepOrder)
              THEN pc[c] = StepOrder[Len(steps[c]) + 1]
              ELSE pc[c] \in {"returned", "idle"}
        /\ outcome[c] = "None" => steps[c] = StepOrder

\* both metadata loaders returned false, and the call went on to commit the purchases
C10_Witness ==
    /\ outcome[1] = "None"
    /\ loaded[1].article = "false"
    /\ loaded[1].customer = "false"
    /\ loaded[1].purchase = "true"
    /\ steps[1] = StepOrder
    /\ db.purchase # <<>>

====
